---- MODULE Spec2Model ----
(***************************************************************************)
(* Model of the EventEmitter class of src/src/EventEmitter.ts.             *)
(*                                                                         *)
(* The emitter owns `listeners` (event name -> Set of listener functions,  *)
(* or undefined) and `onceList` (Set of listener functions).  The Set      *)
(* objects live in `heap`, because emit keeps a reference to the Set it    *)
(* iterates while the registry may drop or replace it.  A Set is modelled  *)
(* as the sequence of its elements in insertion order; Set.forEach is a    *)
(* cursor into that sequence (frame field idx).  A listener is arbitrary   *)
(* caller code: while it runs it may call the emitter, return or throw.    *)
(***************************************************************************)
EXTENDS Naturals, Sequences, FiniteSets

\* Most emitter calls the listeners of one top-level call may make
MaxCalls == 1
\* Most consecutive top-level emit calls of one name that are counted
MaxEmits == 2
\* Most emitter calls of listeners where a listener makes two calls in a row
TwoCalls == 2

Names == {"beep", "protagonist"}
Listeners == {"A", "B", "C"}
Payloads == {<< >>, <<"Arthur", "Dent">>}
Errors == {"e1", "e2"}

\* The listeners and payloads used where listeners call the emitter themselves
SomeListeners == {"A", "B"}
SomePayloads == {<<"Arthur", "Dent">>}

\* Partial<AddEventListenerOptions>: the keys given by the caller, with values
OptionValues == {{}, {<<"once", FALSE>>}, {<<"once", TRUE>>}}

Undefined == 0
NoListener == "-"
NoName == "-"
SetIds == 1 .. (Cardinality(Names) + MaxCalls + TwoCalls + 1)

VARIABLES
    listeners,   \* this.listeners: name -> Set reference, or Undefined
    onceList,    \* this.onceList
    heap,        \* Set objects: reference -> elements in insertion order
    stack,       \* running emit calls, innermost last
    result,      \* how the last call ended: "ok" or the error thrown
    log,         \* record of the last top-level call if it was an emit
    ncalls,      \* emitter calls made by listeners in the current top-level call
    budget,      \* most emitter calls listeners may make (fixed by Init)
    streak,      \* observer: consecutive top-level emits of one name
    gone         \* observer: subscriptions ended by a call and not made again

vars == <<listeners, onceList, heap, stack, result, log, ncalls, budget, streak,
          gone>>

----------------------------------------------------------------------------
\* Set operations (ECMAScript Set: insertion ordered, no duplicates)

Range(s) == {s[i] : i \in 1 .. Len(s)}

IndexOf(s, x) == CHOOSE i \in 1 .. Len(s) : s[i] = x

\* Set.prototype.delete: removes the element, the others keep their order
SetDelete(s, x) ==
    IF x \in Range(s)
    THEN LET p == IndexOf(s, x)
         IN  [i \in 1 .. (Len(s) - 1) |-> IF i < p THEN s[i] ELSE s[i + 1]]
    ELSE s

\* An array push in place of Set.add: a second add holds the element twice
SetAddPush(s, x) == Append(s, x)

\* A Set.add that moves an element already present to the end
SetAddMoves(s, x) == Append(SetDelete(s, x), x)

\* Set.prototype.add: appends unless already present
SetAdd(s, x) == IF x \in Range(s) THEN s ELSE Append(s, x)

\* Set.prototype.forEach keeps a cursor: deleting an element at or before the
\* cursor leaves the cursor on the same successor
CursorAfterDelete(s, x, idx) ==
    IF x \in Range(s) /\ IndexOf(s, x) <= idx THEN idx - 1 ELSE idx

----------------------------------------------------------------------------
\* Heap bookkeeping

Referenced(reg, stk, r) ==
    \/ \E n \in Names : reg[n] = r
    \/ \E i \in 1 .. Len(stk) : stk[i].set = r

\* new Set(): the first reference not in use
NewSet(reg, stk) ==
    CHOOSE r \in SetIds :
        /\ ~Referenced(reg, stk, r)
        /\ \A q \in SetIds : q < r => Referenced(reg, stk, q)

\* Sets nothing refers to any more are dropped
Collect(h, reg, stk) ==
    [r \in SetIds |-> IF Referenced(reg, stk, r) THEN h[r] ELSE << >>]

----------------------------------------------------------------------------
\* Who is calling

TopLevel == stack = << >>

Top == stack[Len(stack)]

Running == stack # << >> /\ Top.phase = "run"

\* A call comes from the top-level caller or from the listener now running
CanCall == TopLevel \/ (Running /\ ncalls < budget)

NoLog == [name |-> NoName, sent |-> << >>, start |-> << >>, visited |-> << >>]

\* Bookkeeping of a call: a top-level call starts a new record
Called ==
    /\ ncalls' = IF TopLevel THEN 0 ELSE ncalls + 1
    /\ log' = IF TopLevel THEN NoLog ELSE log
    /\ UNCHANGED budget

\* addEventListener, removeEventListener and removeAllEventListeners throw nothing
Returned == result' = IF TopLevel THEN "ok" ELSE result

\* The listeners now subscribed to a name
Members(name) ==
    IF listeners[name] = Undefined THEN {} ELSE Range(heap[listeners[name]])

----------------------------------------------------------------------------
\* Observers

NoStreak ==
    [name |-> NoName, emits |-> 0, tally |-> [l \in Listeners |-> 0],
     once |-> {}, plain |-> {}, again |-> << >>]

NothingGone ==
    [now |-> [n \in Names |-> [l \in Listeners |-> "no"]], at |-> << >>]

\* Subscribed to this name only, and marked once
OnceOnly(name) ==
    {l \in Members(name) \cap onceList :
        \A m \in Names \ {name} : l \notin Members(m)}

\* A top-level addEventListener: was the pair subscribed already?
StreakAdd(name, listener) ==
    streak' = [NoStreak EXCEPT
                 !.again = IF listener \in Members(name)
                           THEN <<name, listener>> ELSE << >>]

StreakReset == streak' = NoStreak

\* A top-level emit continues the streak of its name or starts one
StreakEmit(name) ==
    LET cur == IF streak.name = name THEN streak
               ELSE [name |-> name, emits |-> 0,
                     tally |-> [l \in Listeners |-> 0],
                     once |-> OnceOnly(name),
                     plain |-> Members(name) \ onceList,
                     again |-> streak.again]
    IN  streak' = IF listeners[name] = Undefined
                  THEN [cur EXCEPT !.emits = @ + 1]
                  ELSE cur

StreakInvoke ==
    streak' = [streak EXCEPT !.tally[heap[Top.set][Top.idx + 1]] = @ + 1]

StreakFinish == streak' = [streak EXCEPT !.emits = @ + 1]

GoneAdd(name, listener) ==
    gone' = [now |-> [gone.now EXCEPT ![name][listener] = "no"],
             at |-> [i \in 1 .. Len(gone.at) |->
                       IF stack[i].name = name
                       THEN [gone.at[i] EXCEPT ![listener] = "no"]
                       ELSE gone.at[i]]]

GoneRemove(name, listener) ==
    gone' = [gone EXCEPT !.now[name][listener] = "removed"]

GoneRemoveAll ==
    gone' = [gone EXCEPT
               !.now = [n \in Names |-> [l \in Listeners |->
                          IF l \in Members(n) THEN "cleared" ELSE gone.now[n][l]]]]

\* An emit call that starts iterating remembers what was gone at its start
GoneEmit(name) ==
    gone' = IF listeners[name] = Undefined THEN gone
            ELSE [gone EXCEPT !.at = Append(@, gone.now[name])]

GoneFinish == gone' = [gone EXCEPT !.at = SubSeq(@, 1, Len(@) - 1)]

----------------------------------------------------------------------------
\* The emitter's state after the constructor
Constructed ==
    /\ listeners = [n \in Names |-> Undefined]
    /\ onceList = {}
    /\ heap = [r \in SetIds |-> << >>]
    /\ stack = << >>
    /\ result = "ok"
    /\ log = NoLog
    /\ ncalls = 0
    /\ streak = NoStreak
    /\ gone = NothingGone

Init == Constructed /\ budget = MaxCalls

\* optionsWithDefaults = { once: false, ...options }
OptionsWithDefaults(options) ==
    [once |-> IF \E kv \in options : kv[1] = "once"
              THEN (CHOOSE kv \in options : kv[1] = "once")[2]
              ELSE FALSE]

\* addEventListener(name, listener, options): the state after the call
AddedRegistry(reg, stk, name) ==
    IF reg[name] = Undefined
    THEN [reg EXCEPT ![name] = NewSet(reg, stk)]
    ELSE reg

AddedHeap(h, reg, stk, name, listener) ==
    LET r == AddedRegistry(reg, stk, name)[name]
    IN  [h EXCEPT ![r] = SetAdd(h[r], listener)]

AddedOnce(once, listener, options) ==
    IF OptionsWithDefaults(options).once THEN once \cup {listener} ELSE once

\* A removeEventListener that leaves the entry of an emptied Set in place
RemovedRegistryKeeps(reg, h, name, listener) == reg

\* removeEventListener(name, listener): the state after the call
RemovedRegistry(reg, h, name, listener) ==
    IF reg[name] = Undefined THEN reg
    ELSE IF Len(SetDelete(h[reg[name]], listener)) = 0
         THEN [reg EXCEPT ![name] = Undefined]
         ELSE reg

\* A removeEventListener without listeners.delete(listener)
RemovedHeapKeeps(reg, h, name, listener) == h

RemovedHeap(reg, h, name, listener) ==
    IF reg[name] = Undefined THEN h
    ELSE [h EXCEPT ![reg[name]] = SetDelete(h[reg[name]], listener)]

\* A removeEventListener without this.onceList.delete(listener)
RemovedOnceKeeps(reg, once, name, listener) == once

RemovedOnce(reg, once, name, listener) ==
    IF reg[name] = Undefined THEN once ELSE once \ {listener}

\* The forEach cursors of the running emit calls after the delete
RemovedStack(reg, h, stk, name, listener) ==
    IF reg[name] = Undefined THEN stk
    ELSE [i \in 1 .. Len(stk) |->
            IF stk[i].set = reg[name]
            THEN [stk[i] EXCEPT
                    !.idx = CursorAfterDelete(h[reg[name]], listener, stk[i].idx)]
            ELSE stk[i]]

----------------------------------------------------------------------------
\* Operations

AddEventListener(name, listener, options) ==
    /\ CanCall
    /\ listeners' = AddedRegistry(listeners, stack, name)
    /\ heap' = AddedHeap(heap, listeners, stack, name, listener)
    /\ onceList' = AddedOnce(onceList, listener, options)
    /\ Called
    /\ Returned
    /\ UNCHANGED stack

RemoveEventListener(name, listener) ==
    /\ CanCall
    /\ listeners' = RemovedRegistry(listeners, heap, name, listener)
    /\ stack' = RemovedStack(listeners, heap, stack, name, listener)
    /\ heap' = Collect(RemovedHeap(listeners, heap, name, listener),
                       listeners', stack')
    /\ onceList' = RemovedOnce(listeners, onceList, name, listener)
    /\ Called
    /\ Returned

\* A removeAllEventListeners without this.onceList.clear()
RemoveAllKeepsOnce ==
    /\ CanCall
    /\ listeners' = [n \in Names |-> Undefined]
    /\ heap' = Collect(heap, listeners', stack)
    /\ Called
    /\ Returned
    /\ UNCHANGED <<stack, onceList>>

RemoveAllEventListeners ==
    /\ CanCall
    /\ listeners' = [n \in Names |-> Undefined]
    /\ onceList' = {}
    /\ heap' = Collect(heap, listeners', stack)
    /\ Called
    /\ Returned
    /\ UNCHANGED stack

\* A rest parameter that also takes the name
RestParameterAll(arguments) == arguments

\* emit(name, ...payload): the rest parameter holds the arguments after name
RestParameter(arguments) == SubSeq(arguments, 2, Len(arguments))

\* The frame of an emit call about to iterate the Set of its name
Frame(name, payload) ==
    [name |-> name, sent |-> payload,
     payload |-> RestParameter(<<name>> \o payload),
     set |-> listeners[name], idx |-> 0,
     phase |-> "iter", cur |-> NoListener,
     start |-> heap[listeners[name]], visited |-> << >>]

\* An emit without the early return: forEach of undefined is a TypeError
EmitUnguarded(name, payload) ==
    /\ CanCall
    /\ ncalls' = IF TopLevel THEN 0 ELSE ncalls + 1
    /\ IF listeners[name] = Undefined
       THEN /\ result' = "TypeError"
            /\ log' = IF TopLevel THEN [NoLog EXCEPT !.name = name,
                                                     !.sent = payload]
                      ELSE log
            /\ UNCHANGED stack
       ELSE /\ stack' = Append(stack, Frame(name, payload))
            /\ log' = IF TopLevel THEN NoLog ELSE log
            /\ Returned
    /\ UNCHANGED <<listeners, onceList, heap, budget>>

\* emit(name, ...payload) up to the forEach: returns at once without listeners
Emit(name, payload) ==
    /\ CanCall
    /\ ncalls' = IF TopLevel THEN 0 ELSE ncalls + 1
    /\ IF listeners[name] = Undefined
       THEN /\ result' = "ok"
            /\ log' = IF TopLevel THEN [NoLog EXCEPT !.name = name,
                                                     !.sent = payload]
                      ELSE log
            /\ UNCHANGED stack
       ELSE /\ stack' = Append(stack, Frame(name, payload))
            /\ log' = IF TopLevel THEN NoLog ELSE log
            /\ Returned
    /\ UNCHANGED <<listeners, onceList, heap, budget>>

\* forEach calls the callback on the next element: listener(...payload);
\* the observer may leave the invocation out of the record of the pass
Visit(record) ==
    /\ stack # << >>
    /\ Top.phase = "iter"
    /\ Top.idx < Len(heap[Top.set])
    /\ LET l == heap[Top.set][Top.idx + 1]
       IN  stack' = [stack EXCEPT ![Len(stack)] =
                       [@ EXCEPT !.idx = @ + 1, !.phase = "run", !.cur = l,
                                 !.visited = IF record
                                             THEN Append(@, <<l, Top.payload>>)
                                             ELSE @]]
    /\ UNCHANGED <<listeners, onceList, heap, result, log, budget>>

Invoke == Visit(TRUE) /\ UNCHANGED ncalls

\* An emit that never takes a listener for a once listener
OnceHasNever(once, listener) == FALSE

\* this.onceList.has(listener)
OnceHas(once, listener) == listener \in once

\* An emit that puts the removal of a once listener off while forEach has
\* listeners left to visit
ListenerReturnAtEnd ==
    /\ Running
    /\ LET l == Top.cur
           n == Top.name
           back == [stack EXCEPT ![Len(stack)] =
                      [@ EXCEPT !.phase = "iter", !.cur = NoListener]]
       IN  IF OnceHas(onceList, l) /\ Top.idx >= Len(heap[Top.set])
           THEN /\ listeners' = RemovedRegistry(listeners, heap, n, l)
                /\ stack' = RemovedStack(listeners, heap, back, n, l)
                /\ heap' = Collect(RemovedHeap(listeners, heap, n, l),
                                   listeners', stack')
                /\ onceList' = RemovedOnce(listeners, onceList, n, l)
           ELSE /\ stack' = back
                /\ UNCHANGED <<listeners, onceList, heap>>
    /\ UNCHANGED <<result, log, ncalls, budget>>

\* The listener returns: if (this.onceList.has(listener)) removeEventListener
ListenerReturn ==
    /\ Running
    /\ LET l == Top.cur
           n == Top.name
           back == [stack EXCEPT ![Len(stack)] =
                      [@ EXCEPT !.phase = "iter", !.cur = NoListener]]
       IN  IF OnceHas(onceList, l)
           THEN /\ listeners' = RemovedRegistry(listeners, heap, n, l)
                /\ stack' = RemovedStack(listeners, heap, back, n, l)
                /\ heap' = Collect(RemovedHeap(listeners, heap, n, l),
                                   listeners', stack')
                /\ onceList' = RemovedOnce(listeners, onceList, n, l)
           ELSE /\ stack' = back
                /\ UNCHANGED <<listeners, onceList, heap>>
    /\ UNCHANGED <<result, log, ncalls, budget>>

\* removeEventListener called by emit for a once listener
GoneReturn ==
    gone' = IF OnceHas(onceList, Top.cur)
            THEN [gone EXCEPT !.now[Top.name][Top.cur] = "removed"]
            ELSE gone

\* An emit call ends: its frame goes, the top-level caller keeps the record
Finished(outcome) ==
    /\ stack' = SubSeq(stack, 1, Len(stack) - 1)
    /\ heap' = Collect(heap, listeners, stack')
    /\ result' = outcome
    /\ log' = IF Len(stack) = 1
              THEN [name |-> Top.name, sent |-> Top.sent,
                    start |-> Top.start, visited |-> Top.visited]
              ELSE log
    /\ UNCHANGED <<listeners, onceList, ncalls, budget>>

\* An emit that catches what a listener throws and goes on
ListenerThrowCaught(e) ==
    /\ Running
    /\ stack' = [stack EXCEPT ![Len(stack)] =
                   [@ EXCEPT !.phase = "iter", !.cur = NoListener]]
    /\ UNCHANGED <<listeners, onceList, heap, result, log, ncalls, budget>>

\* The listener throws: nothing catches it in forEach or emit
ListenerThrow(e) ==
    /\ Running
    /\ Finished(e)

\* forEach is past the last element: emit returns
EmitReturn ==
    /\ stack # << >>
    /\ Top.phase = "iter"
    /\ Top.idx >= Len(heap[Top.set])
    /\ Finished("ok")

----------------------------------------------------------------------------
\* Any caller, listeners included, makes any call; listeners may throw
Next ==
    \/ \E n \in Names, l \in SomeListeners, o \in OptionValues :
           AddEventListener(n, l, o) /\ GoneAdd(n, l) /\ UNCHANGED streak
    \/ \E n \in Names, l \in SomeListeners :
           RemoveEventListener(n, l) /\ GoneRemove(n, l) /\ UNCHANGED streak
    \/ RemoveAllEventListeners /\ GoneRemoveAll /\ UNCHANGED streak
    \/ \E n \in Names, p \in SomePayloads :
           Emit(n, p) /\ GoneEmit(n) /\ UNCHANGED streak
    \/ Invoke /\ UNCHANGED <<streak, gone>>
    \/ ListenerReturn /\ GoneReturn /\ UNCHANGED streak
    \/ \E e \in Errors : ListenerThrow(e) /\ GoneFinish /\ UNCHANGED streak
    \/ EmitReturn /\ GoneFinish /\ UNCHANGED streak

Spec == Init /\ [][Next]_vars

\* Calls come one after the other from the top level; listeners only return
NextSeq ==
    \/ \E n \in Names, l \in Listeners, o \in OptionValues :
           /\ TopLevel
           /\ AddEventListener(n, l, o)
           /\ StreakAdd(n, l)
           /\ UNCHANGED gone
    \/ \E n \in Names, l \in Listeners :
           /\ TopLevel
           /\ RemoveEventListener(n, l)
           /\ StreakReset
           /\ UNCHANGED gone
    \/ TopLevel /\ RemoveAllEventListeners /\ StreakReset /\ UNCHANGED gone
    \/ \E n \in Names, p \in Payloads :
           /\ TopLevel
           /\ streak.name = n => streak.emits < MaxEmits
           /\ Emit(n, p)
           /\ StreakEmit(n)
           /\ UNCHANGED gone
    \/ Invoke /\ StreakInvoke /\ UNCHANGED gone
    \/ ListenerReturn /\ UNCHANGED <<streak, gone>>
    \/ EmitReturn /\ StreakFinish /\ UNCHANGED gone

SpecSeq == Init /\ [][NextSeq]_vars

----------------------------------------------------------------------------
\* Helpers of the properties

\* The listeners a pass has invoked, in order
Invoked(visited) == [k \in 1 .. Len(visited) |-> visited[k][1]]

\* How often a pass has invoked a listener
Times(visited, listener) ==
    Cardinality({k \in 1 .. Len(visited) : visited[k][1] = listener})

\* The listeners of a name in the order the Set holds them
Order(name) ==
    IF listeners[name] = Undefined THEN << >> ELSE heap[listeners[name]]

\* A top-level emit call has just finished
AfterEmit == TopLevel /\ log.name # NoName

TypeOK ==
    /\ listeners \in [Names -> SetIds \cup {Undefined}]
    /\ onceList \subseteq Listeners
    /\ \A r \in SetIds : Range(heap[r]) \subseteq Listeners
    /\ \A r \in SetIds : Cardinality(Range(heap[r])) = Len(heap[r])
    /\ \A i \in 1 .. Len(stack) : stack[i].idx <= Len(heap[stack[i].set])
    /\ result \in {"ok"} \cup Errors
    /\ ncalls <= budget

----------------------------------------------------------------------------
\* C1: a listener subscribed to one name only, with once, is invoked exactly
\* once by any number of consecutive emits of that name, and after the first
\* of them it is in no Set of the registry and not in onceList.
OnceFiresOnce ==
    \A l \in streak.once :
        /\ streak.tally[l] <= 1
        /\ streak.emits >= 1 =>
               /\ streak.tally[l] = 1
               /\ l \notin onceList
               /\ \A n \in Names : l \notin Members(n)

OnceFiresOnceWitness ==
    /\ TopLevel
    /\ streak.emits >= 2
    /\ streak.once # {}
    /\ streak.plain # {}

\* C2: every emit of a name invokes each listener subscribed to it exactly
\* once, with exactly the payload given to emit; a listener subscribed without
\* once is invoked N times by N consecutive emits.
DeliversEveryEmit ==
    /\ \A i \in 1 .. Len(stack) : \A k \in 1 .. Len(stack[i].visited) :
           stack[i].visited[k][2] = stack[i].sent
    /\ AfterEmit =>
           \A l \in Range(log.start) :
               Cardinality({k \in 1 .. Len(log.visited) :
                               log.visited[k] = <<l, log.sent>>}) = 1
    /\ TopLevel => \A l \in streak.plain : streak.tally[l] = streak.emits

DeliversEveryEmitWitness ==
    /\ AfterEmit
    /\ streak.emits >= 2
    /\ streak.plain # {}
    /\ log.sent = <<"Arthur", "Dent">>
    /\ Len(log.visited) >= 2

\* C5: a listener subscribed to a name it is already subscribed to is held
\* once: an emit of the name invokes it once, and one removeEventListener
\* leaves it unsubscribed.
SubscribeTwiceIsOnceState ==
    streak.again # << >> =>
        LET n == streak.again[1]
            l == streak.again[2]
            held == Cardinality({k \in 1 .. Len(Order(n)) : Order(n)[k] = l})
        IN  /\ held <= 1
            /\ streak.name = NoName => held = 1
            /\ (AfterEmit /\ log.name = n /\ l \in Range(log.start)) =>
                   Times(log.visited, l) = 1
            /\ (TopLevel /\ streak.name = n /\ l \in streak.plain) =>
                   streak.tally[l] = streak.emits

SubscribeTwiceIsOnceStep ==
    \A n \in Names, l \in Listeners :
        (streak.again = <<n, l>> /\ RemoveEventListener(n, l)) =>
            l \notin Members(n)'

SubscribeTwiceIsOnce ==
    [] SubscribeTwiceIsOnceState /\ [][SubscribeTwiceIsOnceStep]_vars

SubscribeTwiceIsOnceWitness ==
    /\ AfterEmit
    /\ streak.again # << >>
    /\ streak.emits >= 2
    /\ log.name = streak.again[1]
    /\ streak.again[2] \in Range(log.start)

\* C6: emit invokes the listeners of the name in the order of their first
\* subscription; subscribing a subscribed listener again does not move it, a
\* new one goes last, and unsubscribing keeps the order of the others.
InOrderState ==
    /\ \A i \in 1 .. Len(stack) :
           Invoked(stack[i].visited)
             = SubSeq(stack[i].start, 1, Len(stack[i].visited))
    /\ AfterEmit => Invoked(log.visited) = log.start

InOrderStep ==
    \A n \in Names :
        LET old == Order(n)
            new == Order(n)'
        IN  \/ new = old
            \/ \E l \in Listeners \ Range(old) : new = Append(old, l)
            \/ \E l \in Range(old) : new = SelectSeq(old, LAMBDA x : x # l)
            \/ new = << >>

InOrder == [] InOrderState /\ [][InOrderStep]_vars

InOrderWitness ==
    /\ AfterEmit
    /\ log.start = <<"C", "A", "B">>
    /\ Invoked(log.visited) = <<"C", "A", "B">>
    /\ streak.again # << >>

\* C3: once removeEventListener(name, L) has returned, L is not subscribed to
\* name and no emit of name that starts later invokes L, until L is subscribed
\* to name again; the call itself invokes nothing and leaves the invocations
\* already made as they are.
UnsubscribedState ==
    /\ \A n \in Names, l \in Listeners :
           gone.now[n][l] = "removed" => l \notin Members(n)
    /\ \A i \in 1 .. Len(stack) : \A k \in 1 .. Len(stack[i].visited) :
           gone.at[i][stack[i].visited[k][1]] # "removed"

UnsubscribedStep ==
    \A n \in Names, l \in SomeListeners :
        RemoveEventListener(n, l) =>
            /\ Len(stack') = Len(stack)
            /\ \A i \in 1 .. Len(stack) : stack'[i].visited = stack[i].visited
            /\ ~TopLevel => log' = log

Unsubscribed == [] UnsubscribedState /\ [][UnsubscribedStep]_vars

UnsubscribedWitness ==
    /\ Len(stack) = 1
    /\ \E l \in Listeners : gone.at[1][l] = "removed"
    /\ Top.visited # << >>
    /\ Top.idx = Len(heap[Top.set])

\* C4: removeAllEventListeners leaves the registry and onceList empty, so a
\* second call changes nothing; no emit that starts after it invokes a listener
\* that was subscribed to the name before it, until it is subscribed again.
ClearedState ==
    /\ \A n \in Names, l \in Listeners :
           gone.now[n][l] = "cleared" => l \notin Members(n)
    /\ \A i \in 1 .. Len(stack) : \A k \in 1 .. Len(stack[i].visited) :
           gone.at[i][stack[i].visited[k][1]] # "cleared"

ClearedStep ==
    RemoveAllEventListeners =>
        /\ \A n \in Names : listeners'[n] = Undefined
        /\ onceList' = {}
        /\ ((\A n \in Names : listeners[n] = Undefined) /\ onceList = {}) =>
               UNCHANGED <<listeners, onceList, heap, stack>>

Cleared == [] ClearedState /\ [][ClearedStep]_vars

ClearedWitness ==
    /\ Len(stack) = 1
    /\ \E l \in Listeners : gone.at[1][l] = "cleared"
    /\ Top.visited # << >>
    /\ Top.idx = Len(heap[Top.set])

\* C7: the registry never holds an entry whose Set is empty, also while an
\* emit is running and its listeners call the emitter.
NoEmptyEntry ==
    \A n \in Names : listeners[n] # Undefined => heap[listeners[n]] # << >>

NoEmptyEntryWitness ==
    /\ Running
    /\ ncalls >= 1
    /\ Top.start # << >>
    /\ heap[Top.set] = << >>
    /\ listeners[Top.name] = Undefined
    /\ \E n \in Names : listeners[n] # Undefined

\* C8: between top-level calls every listener in onceList is subscribed to at
\* least one name.
OnceListSubscribed ==
    TopLevel => \A l \in onceList : \E n \in Names : l \in Members(n)

OnceListSubscribedWitness ==
    /\ TopLevel
    /\ result \in Errors
    /\ ncalls >= 1
    /\ \E l \in onceList : \E n \in Names : l \notin Members(n)

\* C9: emit of a name without a registry entry raises nothing, starts no
\* iteration, so invokes no listener, and leaves the registry, the Sets and
\* onceList as they are.
EmitWithoutListeners ==
    [][\A n \in Names, p \in SomePayloads :
          (listeners[n] = Undefined /\ Emit(n, p)) =>
              /\ result' = "ok"
              /\ UNCHANGED <<listeners, onceList, heap, stack>>
              /\ TopLevel => log'.visited = << >>]_vars

EmitWithoutListenersWitness ==
    /\ AfterEmit
    /\ listeners[log.name] = Undefined
    /\ log.start = << >>
    /\ log.visited = << >>
    /\ result = "ok"
    /\ \E n \in Names : listeners[n] # Undefined

\* C10: when a listener throws, the emit call ends there: the listeners after
\* it are not invoked by that call, its caller gets the same error, and the
\* invocations made before stay as they are.
ErrorsPropagate ==
    [][\A e \in Errors :
          ListenerThrow(e) =>
              /\ stack' = SubSeq(stack, 1, Len(stack) - 1)
              /\ result' = e
              /\ Len(stack) = 1 =>
                     /\ log'.visited = Top.visited
                     /\ log'.name = Top.name]_vars

ErrorsPropagateWitness ==
    /\ AfterEmit
    /\ result = "e2"
    /\ ncalls = 0
    /\ Len(log.visited) = 1
    /\ Len(log.start) = 2
    /\ Len(Order(log.name)) = 2

----------------------------------------------------------------------------
\* C11: removeEventListener(name, L) takes L out of onceList on every call,
\* whether or not L is subscribed to name and whether or not name has an entry
\* in the registry.
RemoveClearsOnce ==
    [][\A n \in Names, l \in Listeners :
           (l \in onceList /\ RemoveEventListener(n, l)) => l \notin onceList']_vars

----------------------------------------------------------------------------
\* The aliases

\* on(name, listener, options): this.addEventListener(name, listener, options)
On(name, listener, options) == AddEventListener(name, listener, options)

\* (what once would do if it passed no options on)
OnceDropsOptions(name, listener) == AddEventListener(name, listener, {})

\* once(name, listener): this.addEventListener(name, listener, {once: true})
Once(name, listener) == AddEventListener(name, listener, {<<"once", TRUE>>})

\* off(name, listener): this.removeEventListener(name, listener)
Off(name, listener) == RemoveEventListener(name, listener)

\* Top-level calls through the aliases only; listeners only return
NextAlias ==
    \/ \E n \in Names, l \in SomeListeners, o \in OptionValues :
           TopLevel /\ On(n, l, o) /\ GoneAdd(n, l) /\ UNCHANGED streak
    \/ \E n \in Names, l \in SomeListeners :
           TopLevel /\ Once(n, l) /\ GoneAdd(n, l) /\ UNCHANGED streak
    \/ \E n \in Names, l \in SomeListeners :
           TopLevel /\ Off(n, l) /\ GoneRemove(n, l) /\ UNCHANGED streak
    \/ \E n \in Names, p \in SomePayloads :
           TopLevel /\ Emit(n, p) /\ GoneEmit(n) /\ UNCHANGED streak
    \/ Invoke /\ UNCHANGED <<streak, gone>>
    \/ ListenerReturn /\ GoneReturn /\ UNCHANGED streak
    \/ EmitReturn /\ GoneFinish /\ UNCHANGED streak

SpecAlias == Init /\ [][NextAlias]_vars

\* C12: on, once and off only delegate: a call of on(name, L, options) leaves
\* the state addEventListener(name, L, options) leaves, once(name, L) the state
\* of addEventListener(name, L, {once: true}), and off(name, L) the state of
\* removeEventListener(name, L).
AliasesDelegate ==
    [][/\ \A n \in Names, l \in SomeListeners, o \in OptionValues :
              On(n, l, o) => AddEventListener(n, l, o)
       /\ \A n \in Names, l \in SomeListeners :
              /\ Once(n, l) => AddEventListener(n, l, {<<"once", TRUE>>})
              /\ Off(n, l) => RemoveEventListener(n, l)]_vars

AliasesDelegateWitness ==
    /\ TopLevel
    /\ \E n \in Names, l \in SomeListeners :
           /\ gone.now[n][l] = "removed"
           /\ \E k \in SomeListeners \ {l} :
                  k \in Members(n) /\ k \in onceList
    /\ \E n \in Names, l \in SomeListeners : l \in Members(n) /\ l \notin onceList

----------------------------------------------------------------------------
\* Subscriptions whose once flag is fixed by the name: every subscription to
\* OnceName is made with once: true, every subscription to PlainName without
OnceName == "beep"
PlainName == "protagonist"
PlainOptions == {{}, {<<"once", FALSE>>}}

NextByName ==
    \/ \E l \in SomeListeners :
           /\ TopLevel /\ AddEventListener(OnceName, l, {<<"once", TRUE>>})
           /\ UNCHANGED <<streak, gone>>
    \/ \E l \in SomeListeners, o \in PlainOptions :
           /\ TopLevel /\ AddEventListener(PlainName, l, o)
           /\ UNCHANGED <<streak, gone>>
    \/ \E n \in Names, l \in SomeListeners :
           TopLevel /\ RemoveEventListener(n, l) /\ UNCHANGED <<streak, gone>>
    \/ \E n \in Names, p \in Payloads :
           TopLevel /\ Emit(n, p) /\ UNCHANGED <<streak, gone>>
    \/ Invoke /\ UNCHANGED <<streak, gone>>
    \/ ListenerReturn /\ UNCHANGED <<streak, gone>>
    \/ EmitReturn /\ UNCHANGED <<streak, gone>>

SpecByName == Init /\ [][NextByName]_vars

\* C13: the once flag belongs to the subscription (name, listener): an emit of
\* the name a listener is subscribed to without once leaves it subscribed to
\* that name, whatever it is subscribed to with once under another name, and
\* an emit of the name it is subscribed to with once takes it off that name.
OncePerName ==
    AfterEmit =>
        \A l \in Range(log.start) :
            /\ log.name = PlainName => l \in Members(PlainName)
            /\ log.name = OnceName => l \notin Members(OnceName)

----------------------------------------------------------------------------
\* C14: a listener subscribed with once is invoked at most once also when an
\* emit of the same name is called while it runs: the emit nested in its
\* invocation does not invoke it a second time.
OnceNotReentered ==
    \A i \in 1 .. Len(stack), j \in 1 .. Len(stack) :
        ( /\ i < j
          /\ stack[i].name = stack[j].name
          /\ stack[i].phase = "run"
          /\ stack[i].cur \in OnceOnly(stack[i].name) )
        => Times(stack[j].visited, stack[i].cur) = 0

----------------------------------------------------------------------------
\* C15: the listeners one emit call invokes were all subscribed to the name
\* when the call began, and none is invoked twice by that call, whatever the
\* listeners subscribe or unsubscribe while the pass runs.
OnePassOneInvocation ==
    /\ \A i \in 1 .. Len(stack) :
           \A l \in Range(Invoked(stack[i].visited)) :
               /\ l \in Range(stack[i].start)
               /\ Times(stack[i].visited, l) = 1
    /\ AfterEmit =>
           \A l \in Range(Invoked(log.visited)) :
               /\ l \in Range(log.start)
               /\ Times(log.visited, l) = 1

----------------------------------------------------------------------------
\* C18: once removeAllEventListeners has been called while a pass is running,
\* the pass invokes none of the listeners it had not yet visited: no forEach
\* invokes a listener that the call has cleared from the name and that has
\* not been subscribed again since.
ClearStopsPass ==
    [][( /\ stack # << >>
         /\ Top.phase = "iter"
         /\ Top.idx < Len(heap[Top.set])
         /\ gone.now[Top.name][heap[Top.set][Top.idx + 1]] = "cleared" )
       => ~ Invoke]_vars

----------------------------------------------------------------------------
\* C20: a listener subscribed with once is unsubscribed by its first
\* invocation also when the invocation throws: after an emit that ended with
\* a listener's error (and whose listeners made no emitter call) the listener
\* that threw is not left subscribed to the name with its once mark.
OnceGoneAfterThrow ==
    (AfterEmit /\ result \in Errors /\ ncalls = 0 /\ log.visited # << >>)
    => Invoked(log.visited)[Len(log.visited)] \notin OnceOnly(log.name)

----------------------------------------------------------------------------
\* The same calls, with listeners that may make two emitter calls in a row
InitTwo == Constructed /\ budget = TwoCalls

SpecTwo == InitTwo /\ [][Next]_vars

\* C16: when a listener running inside emit(name) has called
\* removeEventListener(name, B), the pass does not invoke B afterwards (unless
\* B is subscribed again), and what the pass had invoked before stands: the
\* record of the pass only grows at its end.
RemovedNotVisited ==
    [][/\ ( /\ stack # << >>
            /\ Top.phase = "iter"
            /\ Top.idx < Len(heap[Top.set])
            /\ gone.now[Top.name][heap[Top.set][Top.idx + 1]] = "removed" )
          => ~ Invoke
       /\ \A i \in 1 .. Len(stack) :
              i <= Len(stack') =>
                  /\ Len(stack[i].visited) <= Len(stack'[i].visited)
                  /\ SubSeq(stack'[i].visited, 1, Len(stack[i].visited))
                       = stack[i].visited]_vars

----------------------------------------------------------------------------
----------------------------------------------------------------------------
\* One pass at a time whose listeners call addEventListener and
\* removeEventListener, at most TwoCalls times in one invocation, and never
\* emit; the invocations are not recorded, so that a pass may go on for ever
InitLoop == Constructed /\ budget = TwoCalls

VisitNext == Visit(FALSE) /\ ncalls' = 0 /\ UNCHANGED <<streak, gone>>

ReturnNext == ListenerReturn /\ UNCHANGED <<streak, gone>>

EmitReturnNext == EmitReturn /\ UNCHANGED <<streak, gone>>

NextLoop ==
    \/ \E n \in Names, l \in SomeListeners, o \in OptionValues :
           AddEventListener(n, l, o) /\ UNCHANGED <<streak, gone>>
    \/ \E n \in Names, l \in SomeListeners :
           RemoveEventListener(n, l) /\ UNCHANGED <<streak, gone>>
    \/ \E n \in Names, p \in SomePayloads :
           TopLevel /\ Emit(n, p) /\ UNCHANGED <<streak, gone>>
    \/ VisitNext
    \/ ReturnNext
    \/ EmitReturnNext

\* The calls are synchronous: forEach goes on to the next entry, a listener
\* that can return does, and emit returns when forEach is done
SpecLoop ==
    /\ InitLoop
    /\ [][NextLoop]_vars
    /\ WF_vars(VisitNext)
    /\ WF_vars(ReturnNext)
    /\ WF_vars(EmitReturnNext)

\* C19: every emit call returns, when each listener invocation returns after
\* finitely many addEventListener and removeEventListener calls and calls no
\* emit, also when a listener unsubscribes and subscribes itself again.
EmitTerminates == (stack # << >>) ~> (stack = << >>)

====
